---- MODULE Spec2Model ----
\* A model of the eSIM device crawler: the spider's parse coordinator and its
\* two extractors (src/esimcrawl/spiders/scrap.py), and the run entrypoint with
\* its cleanup, crawl, load and delivery steps (src/main.py).
EXTENDS Integers, Sequences, FiniteSets, TLC

\* ---------------------------------------------------------------- bounds
\* longest itemListElement list of a generated JSON-LD block
MaxItems == 3
\* most JSON-LD script blocks in a generated document
MaxBlocks == 2
\* most sibling elements in a generated document body
MaxElems == 2
\* the elements that follow the heading of a generated headed body
MaxLists == 2
\* most lines in a generated output artifact
MaxLines == 4
\* largest configured retry budget
MaxRetries == 3
\* the requests that trigger a run
MaxRequests == 2

None == [t |-> "None"]

\* ---------------------------------------------------------------- strings
\* Python str.strip(), str.lower() and the `in` substring test, on TLC strings.
RECURSIVE LStrip(_)
LStrip(s) ==
    IF s = "" THEN ""
    ELSE IF SubSeq(s, 1, 1) = " " THEN LStrip(SubSeq(s, 2, Len(s))) ELSE s

RECURSIVE RStrip(_)
RStrip(s) ==
    IF s = "" THEN ""
    ELSE IF SubSeq(s, Len(s), Len(s)) = " " THEN RStrip(SubSeq(s, 1, Len(s) - 1)) ELSE s

Strip(s) == RStrip(LStrip(s))

UpperToLower ==
    [A |-> "a", B |-> "b", C |-> "c", D |-> "d", E |-> "e", F |-> "f", G |-> "g",
     H |-> "h", I |-> "i", J |-> "j", K |-> "k", L |-> "l", M |-> "m", N |-> "n",
     O |-> "o", P |-> "p", Q |-> "q", R |-> "r", S |-> "s", T |-> "t", U |-> "u",
     V |-> "v", W |-> "w", X |-> "x", Y |-> "y", Z |-> "z"]

RECURSIVE Lower(_)
Lower(s) ==
    IF s = "" THEN ""
    ELSE LET c == SubSeq(s, 1, 1)
         IN  (IF c \in DOMAIN UpperToLower THEN UpperToLower[c] ELSE c)
                 \o Lower(SubSeq(s, 2, Len(s)))

Contains(s, k) ==
    \E i \in 1..(Len(s) - Len(k) + 1) : SubSeq(s, i, i + Len(k) - 1) = k

\* ---------------------------------------------------------------- JSON values
\* What json.loads gives for a script block: a dict, a list, a string, null, or
\* a JSONDecodeError (BadJson).
BadJson == [t |-> "bad"]
JNull == [t |-> "null"]
JStr(s) == [t |-> "str", v |-> s]
JList(v) == [t |-> "list", v |-> v]
JObj(f) == [t |-> "obj", f |-> f]

IsDict(v) == v.t = "obj"
HasKey(v, k) == k \in DOMAIN v.f

\* ---------------------------------------------------------------- Structured Extractor
StartUrl == "https://yesim.app/compatible-devices/"

\* the acceptance filter without its length test
KeepNameAnyLength(device_name) == device_name # ""

\* scrap.py:128  `if device_name and len(device_name) > 2`
KeepName(device_name) == device_name # "" /\ Len(device_name) > 2

\* scrap.py:126  `isinstance(item, dict) and "name" in item`
IsNamed(item) == IsDict(item) /\ HasKey(item, "name")

\* scrap.py:127  item["name"].strip() raises AttributeError unless the name is a str
StripRaises(item_list) ==
    \E i \in 1..Len(item_list) : IsNamed(item_list[i]) /\ item_list[i].f.name.t # "str"

\* scrap.py:124-129  the devices list built from an item list whose names are all str
RECURSIVE CollectNames(_)
CollectNames(item_list) ==
    IF item_list = <<>> THEN <<>>
    ELSE LET item == Head(item_list)
             rest == CollectNames(Tail(item_list))
         IN  IF IsNamed(item) /\ item.f.name.t = "str" /\ KeepName(Strip(item.f.name.v))
             THEN <<Strip(item.f.name.v)>> \o rest
             ELSE rest

JsonLdItem(data, devices) ==
    [category |-> "eSIM Compatible Devices",
     devices |-> devices,
     source |-> "json_ld_schema",
     total_devices |-> Len(devices),
     url |-> StartUrl,
     title |-> IF HasKey(data, "name") THEN data.f.name
               ELSE JStr("eSIM Compatible Devices List")]

\* scrap.py:116-122  the block has the expected shape: a dict with a mainEntity dict
\* holding a non-empty itemListElement list
HasItemList(data) ==
    /\ IsDict(data) /\ HasKey(data, "mainEntity")
    /\ IsDict(data.f.mainEntity) /\ HasKey(data.f.mainEntity, "itemListElement")
    /\ data.f.mainEntity.f.itemListElement.t = "list"
    /\ Len(data.f.mainEntity.f.itemListElement.v) > 0

ItemListOf(data) == data.f.mainEntity.f.itemListElement.v

\* the loop ending at the first block that is no JSON
RECURSIVE ScanScriptsStopOnUnparsable(_, _)
ScanScriptsStopOnUnparsable(json_ld_scripts, i) ==
    IF i > Len(json_ld_scripts) THEN None
    ELSE LET data == json_ld_scripts[i]
         IN  IF data = BadJson THEN None
             ELSE IF HasItemList(data)
             THEN IF StripRaises(ItemListOf(data)) THEN None
                  ELSE IF CollectNames(ItemListOf(data)) # <<>>
                       THEN JsonLdItem(data, CollectNames(ItemListOf(data)))
                       ELSE None
             ELSE ScanScriptsStopOnUnparsable(json_ld_scripts, i + 1)

\* scrap.py:111-151  the loop over the script blocks, from block i on
RECURSIVE ScanScripts(_, _)
ScanScripts(json_ld_scripts, i) ==
    IF i > Len(json_ld_scripts) THEN None
    ELSE LET data == json_ld_scripts[i]
         IN  IF data = BadJson THEN ScanScripts(json_ld_scripts, i + 1)
             ELSE IF HasItemList(data)
             THEN IF StripRaises(ItemListOf(data)) THEN None
                  ELSE IF CollectNames(ItemListOf(data)) # <<>>
                       THEN JsonLdItem(data, CollectNames(ItemListOf(data)))
                       ELSE None
             ELSE ScanScripts(json_ld_scripts, i + 1)

extract_json_ld_data(response) == ScanScripts(response.scripts, 1)

\* ---------------------------------------------------------------- Fallback Extractor
\* The body is the sequence of sibling elements: headings [tag, texts], lists
\* [tag, lis] and other elements. A text node is [s, direct]: direct when it is a
\* child of its li, not of an element nested in it.
DeviceKeywords ==
    {"iphone", "samsung", "pixel", "oneplus", "xiaomi", "huawei",
     "motorola", "galaxy", "ipad", "watch", "surface", "thinkpad"}

HeadingKeywords == {"device", "phone", "tablet", "compatible", "esim"}

IsList(el) == el.tag \in {"ul", "ol"}
IsHeading(el) == el.tag \in {"h1", "h2", "h3", "h4", "h5", "h6"}

\* scrap.py:166-173  the test of one list item's text
LikelyDevice(text) ==
    /\ text # ""
    /\ Len(Strip(text)) > 3
    /\ \E keyword \in DeviceKeywords : Contains(Lower(Strip(text)), keyword)

\* scrap.py:163  response.css("ul li, ol li")
ListItems(body) ==
    UNION { { body[e].lis[i] : i \in 1..Len(body[e].lis) } :
              e \in { d \in 1..Len(body) : IsList(body[d]) } }

\* scrap.py:163-173  Method 1: item.css("::text").get() is the item's first text
\* node, at any depth, or None
MethodOne(response) ==
    { Strip(item[1].s) :
        item \in { li \in ListItems(response.body) : li # <<>> /\ LikelyDevice(li[1].s) } }

\* scrap.py:179-180  the heading's first text node matches a keyword
IsAnchor(heading) ==
    /\ heading.texts # <<>>
    /\ heading.texts[1] # ""
    /\ \E keyword \in HeadingKeywords : Contains(Lower(heading.texts[1]), keyword)

\* scrap.py:182  following-sibling::ul[1] | following-sibling::ol[1]
FirstFollowing(body, h, tag) ==
    { j \in (h + 1)..Len(body) :
        /\ body[j].tag = tag
        /\ \A k \in (h + 1)..(j - 1) : body[k].tag # tag }

\* every list among the following siblings
FollowingListsAll(body, h) == { j \in (h + 1)..Len(body) : IsList(body[j]) }

FollowingLists(body, h) == FirstFollowing(body, h, "ul") \cup FirstFollowing(body, h, "ol")

\* scrap.py:186-187  `item = item.strip()`, `if item and len(item) > 3`
KeepText(item) == Strip(item) # "" /\ Len(Strip(item)) > 3

\* scrap.py:184-188  ul.css("li::text").getall(): the text nodes that are children
\* of the list's items
ListTexts(ul) ==
    UNION { { Strip(ul.lis[i][n].s) :
                n \in { m \in 1..Len(ul.lis[i]) :
                          ul.lis[i][m].direct /\ KeepText(ul.lis[i][m].s) } } :
              i \in 1..Len(ul.lis) }

\* scrap.py:176-188  Method 2
MethodTwo(response) ==
    UNION { ListTexts(response.body[j]) :
              j \in UNION { FollowingLists(response.body, h) :
                              h \in { g \in 1..Len(response.body) :
                                        /\ IsHeading(response.body[g])
                                        /\ IsAnchor(response.body[g]) } } }

\* the result built from the matches of Method 1 alone
FilteredDevicesMethodOneOnly(response) ==
    { device \in MethodOne(response) : Len(device) > 3 }

\* scrap.py:191-192  set(devices_found), filtered to len > 3
FilteredDevices(response) ==
    { device \in MethodOne(response) \cup MethodTwo(response) : Len(device) > 3 }

\* The orders list(set(...)) can give a set.
Orders(S) ==
    { q \in [1..Cardinality(S) -> S] : \A a, b \in 1..Cardinality(S) : a # b => q[a] # q[b] }

FallbackItem(devices) ==
    [category |-> "eSIM Compatible Devices (HTML Fallback)",
     devices |-> devices,
     source |-> "html_fallback",
     total_devices |-> Len(devices),
     url |-> StartUrl]

NoDevicesItem ==
    [status |-> "no_devices_found",
     error |-> "No device data could be extracted",
     url |-> StartUrl,
     parsing_method |-> "html_fallback"]

\* the fallback yielding its device item without looking whether the list is empty
parse_html_fallbackAlwaysDevices(response) ==
    { <<FallbackItem(devices)>> : devices \in Orders(FilteredDevices(response)) }

\* scrap.py:153-210  the items parse_html_fallback can yield for a document
parse_html_fallback(response) ==
    IF FilteredDevices(response) # {}
    THEN { <<FallbackItem(devices)>> : devices \in Orders(FilteredDevices(response)) }
    ELSE { <<NoDevicesItem>> }

\* ---------------------------------------------------------------- documents
\* A rendered document: head is the page's other text, scripts the JSON-LD
\* script blocks as json.loads reads them, body the sibling elements.
RECURSIVE JStrings(_)
JStrings(v) ==
    CASE v.t = "str" -> {v.v}
      [] v.t = "list" -> UNION { JStrings(v.v[i]) : i \in 1..Len(v.v) }
      [] v.t = "obj" -> UNION { JStrings(v.f[k]) : k \in DOMAIN v.f }
      [] OTHER -> {}

ElemStrings(el) ==
    IF IsHeading(el) THEN { el.texts[i] : i \in 1..Len(el.texts) }
    ELSE IF IsList(el)
    THEN UNION { { el.lis[i][n].s : n \in 1..Len(el.lis[i]) } : i \in 1..Len(el.lis) }
    ELSE {}

\* the text fragments response.text is made of
TextParts(response) ==
    {response.head}
        \cup UNION { JStrings(response.scripts[i]) : i \in 1..Len(response.scripts) }
        \cup UNION { ElemStrings(response.body[e]) : e \in 1..Len(response.body) }

\* the block-page check without .lower(): markers are matched case-sensitively
IsBlockPageCaseSensitive(response) ==
    \E part \in TextParts(response) :
        Contains(part, "cloudflare") \/ Contains(part, "aws waf")

\* scrap.py:75  the block-page markers, tested on response.text.lower()
IsBlockPage(response) ==
    \E part \in TextParts(response) :
        Contains(Lower(part), "cloudflare") \/ Contains(Lower(part), "aws waf")

Min(a, b) == IF a < b THEN a ELSE b

BlockedItem(response) ==
    [status |-> "blocked",
     error |-> "Cloudflare/AWS WAF protection detected",
     url |-> StartUrl,
     content_preview |-> SubSeq(response.head, 1, Min(200, Len(response.head)))]

NoDataItem ==
    [status |-> "no_data_found",
     error |-> "No device data could be extracted from any method",
     url |-> StartUrl]

\* ---------------------------------------------------------------- generated inputs
SeqsUpTo(S, n) == UNION { [1..k -> S] : k \in 0..n }

Named(s) == JObj([name |-> JStr(s)])

ItemSamples ==
    {Named("iPhone 12"), Named(" Pixel 7 "), Named("XY"), Named("XYZ"),
     JObj([name |-> JNull]), JObj([position |-> JStr("1")]), JStr("Nokia 3310")}

ListBlock(item_list) ==
    JObj([mainEntity |-> JObj([itemListElement |-> JList(item_list)])])

TitledBlock(item_list) ==
    JObj([name |-> JStr("Devices"),
          mainEntity |-> JObj([itemListElement |-> JList(item_list)])])

StructuralBlocks ==
    {BadJson,
     JList(<<Named("Galaxy S21")>>),
     JObj([name |-> JStr("Organization")]),
     JObj([mainEntity |-> JStr("none")]),
     JObj([mainEntity |-> JObj([name |-> JStr("FAQ")])]),
     JObj([mainEntity |-> JObj([itemListElement |-> JNull])]),
     ListBlock(<<>>),
     ListBlock(<<Named("XY")>>),
     ListBlock(<<Named("iPhone 12")>>),
     TitledBlock(<<Named("Galaxy S21"), Named("Galaxy S21")>>)}

Text(s) == [s |-> s, direct |-> TRUE]
Nested(s) == [s |-> s, direct |-> FALSE]

ElemSamples ==
    {[tag |-> "h2", texts |-> <<"Compatible devices">>],
     [tag |-> "h3", texts |-> <<"About us">>],
     [tag |-> "h1", texts |-> <<>>],
     [tag |-> "p"],
     [tag |-> "ul", lis |-> << <<Text("iPhone 12")>>, <<Text(" XS ")>>, <<Nested("Galaxy S21")>> >>],
     [tag |-> "ol", lis |-> << <<Text("Nokia 3310")>>, <<Text("iPhone 12")>> >>],
     [tag |-> "ul", lis |-> << <<Text("  "), Text("Moto G5")>>, <<>> >>]}

Heads == {"", "Just a moment... Cloudflare", "Blocked by AWS WAF"}

FewBodies ==
    {<<>>,
     <<[tag |-> "h2", texts |-> <<"Compatible devices">>],
       [tag |-> "ul", lis |-> << <<Text("iPhone 12")>>, <<Text(" XS ")>>, <<Nested("Galaxy S21")>> >>]>>}

FewScripts == {<<>>, <<BadJson>>, <<ListBlock(<<Named("iPhone 12"), Named("XY")>>)>>}

Doc(head, scripts, body) == [head |-> head, scripts |-> scripts, body |-> body]

\* bodies made of one heading and the siblings that follow it
HeadedBodies ==
    { <<heading>> \o siblings :
        heading \in { el \in ElemSamples : IsHeading(el) },
        siblings \in SeqsUpTo({ el \in ElemSamples : ~ IsHeading(el) }
                                 \cup {[tag |-> "ol", lis |-> << <<Text("Fairphone 4")>> >>]},
                             MaxLists) }

\* n unparsable blocks
Unparsable(n) == [i \in 1..n |-> BadJson]

Docs ==
    { Doc("", Unparsable(n) \o <<block>>, <<>>) :
        n \in 0..MaxBlocks, block \in StructuralBlocks }
    \cup { Doc("", <<>>, b) : b \in HeadedBodies }
    \cup { Doc(h, <<ListBlock(il)>>, b) :
        h \in Heads, il \in SeqsUpTo(ItemSamples, MaxItems), b \in FewBodies }
    \cup { Doc(h, sc, b) :
        h \in Heads, sc \in SeqsUpTo(StructuralBlocks, MaxBlocks), b \in FewBodies }
    \cup { Doc(h, sc, b) :
        h \in Heads, sc \in FewScripts, b \in SeqsUpTo(ElemSamples, MaxElems) }

\* ---------------------------------------------------------------- state
VARIABLES
    pc,             \* main's position
    exit_code,      \* the process's exit code, -1 while it runs
    retries,        \* CONFIG["webhook"]["retries"]
    json_output,    \* the output artifact: [exists, lines]
    rendered_page,  \* whether the rendered-page artifact exists
    log_file,       \* whether the log file exists
    response,       \* the rendered document the spider parses, or None
    spider,         \* the spider's position in parse
    emitted,        \* the items parse has yielded
    calls,          \* the extractors parse has invoked, in order
    crawled,        \* what run_scrapy_crawl returned: "none", "True", "False"
    json_data,      \* what load_json_data returned
    warnings,       \* the warnings load_json_data logged
    attempt,        \* send_webhook_data's loop variable
    attempts,       \* the outcome of each request issued
    sent,           \* what send_webhook_data returned: "none", "True", "False", "raised"
    cleanup_log,    \* what cleanup_files logged for each path
    line_runs,      \* for each line of the output artifact, the run that wrote it
    run,            \* the number of the run of main in progress
    api,            \* the module serving POST /webhook
    request,        \* the body of the request being handled, or None
    http_response,  \* the answer to the last request, or None
    pending,        \* the requests that have arrived and wait for the event loop
    answered        \* the runs whose handler has returned its answer

vars ==
    <<pc, exit_code, retries, json_output, rendered_page, log_file, response, spider,
      emitted, calls, crawled, json_data, warnings, attempt, attempts, sent,
      cleanup_log, line_runs, run, api, request, http_response, pending, answered>>

mainVars == <<pc, exit_code, crawled>>
fileVars == <<json_output, log_file, line_runs, cleanup_log>>
spiderVars == <<response, spider, emitted, calls>>
loadVars == <<json_data, warnings>>
sendVars == <<retries, attempt, attempts, sent>>
apiVars == <<run, api, request, http_response, pending, answered>>

NoFile == [exists |-> FALSE, lines |-> <<>>]

\* the lines of a file that was there before the first run
Older(file) == [i \in 1..Len(file.lines) |-> 0]

Paths == {"json_output", "rendered_page", "log_file"}

NoLog == [p \in Paths |-> "none"]

\* one run of main started from the command line, no request being served
NoServer ==
    /\ cleanup_log = NoLog /\ run = 1
    /\ api = "none" /\ request = None /\ http_response = None
    /\ pending = 0 /\ answered = 0

\* ---------------------------------------------------------------- the Coordinator
\* parse without the `return` after the blocked item: it goes on to the extractors
ParseCheckBlockNoReturn ==
    /\ spider = "parse"
    /\ rendered_page' = TRUE
    /\ emitted' = IF IsBlockPage(response) THEN Append(emitted, BlockedItem(response))
                  ELSE emitted
    /\ spider' = "json_ld"
    /\ UNCHANGED <<apiVars, response, calls, mainVars, fileVars, loadVars, sendVars>>

\* scrap.py:65-83  write the rendered page, then the block-page check
ParseCheckBlock ==
    /\ spider = "parse"
    /\ rendered_page' = TRUE
    /\ IF IsBlockPage(response)
       THEN /\ emitted' = Append(emitted, BlockedItem(response))
            /\ spider' = "done"
       ELSE /\ emitted' = emitted
            /\ spider' = "json_ld"
    /\ UNCHANGED <<apiVars, response, calls, mainVars, fileVars, loadVars, sendVars>>

\* parse running the fallback after the structured item was yielded
ParseJsonLdThenFallback ==
    /\ spider = "json_ld"
    /\ calls' = Append(calls, "extract_json_ld_data")
    /\ emitted' = IF extract_json_ld_data(response) # None
                  THEN Append(emitted, extract_json_ld_data(response))
                  ELSE emitted
    /\ spider' = "fallback"
    /\ UNCHANGED <<apiVars, response, rendered_page, mainVars, fileVars, loadVars, sendVars>>

\* scrap.py:85-89  the Structured Extractor, and its item when it gives one
ParseJsonLd ==
    /\ spider = "json_ld"
    /\ calls' = Append(calls, "extract_json_ld_data")
    /\ IF extract_json_ld_data(response) # None
       THEN /\ emitted' = Append(emitted, extract_json_ld_data(response))
            /\ spider' = "done"
       ELSE /\ emitted' = emitted
            /\ spider' = "fallback"
    /\ UNCHANGED <<apiVars, response, rendered_page, mainVars, fileVars, loadVars, sendVars>>

\* scrap.py:90-101  the Fallback Extractor; only its first item is yielded
ParseFallback ==
    /\ spider = "fallback"
    /\ calls' = Append(calls, "parse_html_fallback")
    /\ \E fallback_data \in parse_html_fallback(response) :
          emitted' = Append(emitted, IF fallback_data # <<>> THEN fallback_data[1]
                                     ELSE NoDataItem)
    /\ spider' = "done"
    /\ UNCHANGED <<apiVars, response, rendered_page, mainVars, fileVars, loadVars, sendVars>>

InitParse ==
    /\ pc = "crawling" /\ exit_code = -1 /\ crawled = "none"
    /\ retries = 3
    /\ json_output = NoFile /\ rendered_page = FALSE /\ log_file = TRUE
    /\ response \in Docs /\ spider = "parse" /\ emitted = <<>> /\ calls = <<>>
    /\ json_data = None /\ warnings = 0
    /\ attempt = 0 /\ attempts = <<>> /\ sent = "none"
    /\ line_runs = Older(json_output) /\ NoServer

NextParse == ParseCheckBlock \/ ParseJsonLd \/ ParseFallback

SpecParse == InitParse /\ [][NextParse]_vars

\* ---------------------------------------------------------------- the output artifact
\* A file is a sequence of lines. A line is a complete JSON value ("obj"), a
\* whitespace-only line ("blank"), a line that is no JSON at all ("bad"), or a
\* line holding one of the tokens [ ] , of a value written over several lines.
Obj(v) == [k |-> "obj", v |-> v]
BlankLine == [k |-> "blank"]
BadLine == [k |-> "bad"]
LBracket == [k |-> "["]
RBracket == [k |-> "]"]
CommaLine == [k |-> ","]

DecodeError == [t |-> "JSONDecodeError"]
ParseFail == [ok |-> FALSE]

\* json.loads on a text of several lines: whitespace between tokens is skipped, and
\* the text must be exactly one value, a one-line value or a bracketed array.
RECURSIVE ParseValue(_, _)
RECURSIVE ParseElements(_, _, _)
ParseValue(tokens, i) ==
    IF i > Len(tokens) THEN ParseFail
    ELSE IF tokens[i].k = "obj" THEN [ok |-> TRUE, next |-> i + 1, val |-> tokens[i].v]
    ELSE IF tokens[i].k = "["
    THEN IF i + 1 <= Len(tokens) /\ tokens[i + 1].k = "]"
         THEN [ok |-> TRUE, next |-> i + 2, val |-> JList(<<>>)]
         ELSE ParseElements(tokens, i + 1, <<>>)
    ELSE ParseFail

ParseElements(tokens, i, acc) ==
    LET r == ParseValue(tokens, i)
    IN  IF ~ r.ok THEN ParseFail
        ELSE IF r.next > Len(tokens) THEN ParseFail
        ELSE IF tokens[r.next].k = "]"
        THEN [ok |-> TRUE, next |-> r.next + 1, val |-> JList(Append(acc, r.val))]
        ELSE IF tokens[r.next].k = ","
        THEN ParseElements(tokens, r.next + 1, Append(acc, r.val))
        ELSE ParseFail

NonBlank(lines) == SelectSeq(lines, LAMBDA line : line.k # "blank")

\* main.py:116-120  json.loads(f.read().strip())
json_loads(lines) ==
    LET r == ParseValue(NonBlank(lines), 1)
    IN  IF r.ok /\ r.next = Len(NonBlank(lines)) + 1 THEN r.val ELSE DecodeError

\* the JSONLines loop stopping at the first invalid line instead of skipping it
RECURSIVE LineObjectsUntilInvalid(_)
LineObjectsUntilInvalid(lines) ==
    IF lines = <<>> THEN <<>>
    ELSE IF Head(lines).k = "blank" THEN LineObjectsUntilInvalid(Tail(lines))
    ELSE IF Head(lines).k = "obj" THEN <<Head(lines).v>> \o LineObjectsUntilInvalid(Tail(lines))
    ELSE <<>>

\* the JSONLines loop assigning the object instead of appending it
RECURSIVE LineObjectsLastOnly(_)
LineObjectsLastOnly(lines) ==
    IF lines = <<>> THEN <<>>
    ELSE IF Head(lines).k = "obj" /\ LineObjectsLastOnly(Tail(lines)) = <<>>
    THEN <<Head(lines).v>>
    ELSE LineObjectsLastOnly(Tail(lines))

\* main.py:128-141  the objects of the lines that parse, in file order
RECURSIVE LineObjects(_)
LineObjects(lines) ==
    IF lines = <<>> THEN <<>>
    ELSE IF Head(lines).k = "obj" THEN <<Head(lines).v>> \o LineObjects(Tail(lines))
    ELSE LineObjects(Tail(lines))

\* main.py:132-141  one warning for each non-blank line json.loads rejects
LineWarnings(lines) == Len(SelectSeq(lines, LAMBDA line : line.k \notin {"blank", "obj"}))

\* main.py:109-152  load_json_data: what it returns and the warnings it logs
load_json_data(file) ==
    IF ~ file.exists THEN [data |-> None, warnings |-> 0]
    ELSE IF json_loads(file.lines) # DecodeError
    THEN [data |-> json_loads(file.lines), warnings |-> 0]
    ELSE IF LineObjects(file.lines) # <<>>
    THEN [data |-> [items |-> LineObjects(file.lines)], warnings |-> LineWarnings(file.lines)]
    ELSE [data |-> None, warnings |-> LineWarnings(file.lines)]

\* step 2 of main taking a loaded result that carries a status for a failure
LoadJsonDataRejectsStatus ==
    /\ pc = "load"
    /\ json_data' = load_json_data(json_output).data
    /\ warnings' = load_json_data(json_output).warnings
    /\ IF \/ load_json_data(json_output).data = None
          \/ "status" \in DOMAIN load_json_data(json_output).data
       THEN pc' = "exit" /\ exit_code' = 1
       ELSE pc' = "send" /\ exit_code' = exit_code
    /\ UNCHANGED <<apiVars, crawled, rendered_page, fileVars, spiderVars, sendVars>>

\* main.py:249-253  step 2 of main
LoadJsonData ==
    /\ pc = "load"
    /\ json_data' = load_json_data(json_output).data
    /\ warnings' = load_json_data(json_output).warnings
    /\ IF load_json_data(json_output).data = None
       THEN pc' = "exit" /\ exit_code' = 1
       ELSE pc' = "send" /\ exit_code' = exit_code
    /\ UNCHANGED <<apiVars, crawled, rendered_page, fileVars, spiderVars, sendVars>>

LineSamples ==
    {Obj([id |-> 1]), Obj([id |-> 2]), BlankLine, BadLine, LBracket, RBracket, CommaLine}

Files ==
    {NoFile} \cup { [exists |-> TRUE, lines |-> lines] : lines \in SeqsUpTo(LineSamples, MaxLines) }

InitLoad ==
    /\ pc = "load" /\ exit_code = -1 /\ crawled = "True"
    /\ retries = 3
    /\ json_output \in Files /\ rendered_page = TRUE /\ log_file = TRUE
    /\ response = None /\ spider = "done" /\ emitted = <<>> /\ calls = <<>>
    /\ json_data = None /\ warnings = 0
    /\ attempt = 0 /\ attempts = <<>> /\ sent = "none"
    /\ line_runs = Older(json_output) /\ NoServer

NextLoad == LoadJsonData

SpecLoad == InitLoad /\ [][NextLoad]_vars

\* ---------------------------------------------------------------- the Delivery Client
\* the retry loop running one time too many
LoopRunsOnceMore == attempt <= retries

\* main.py:168  `for attempt in range(retries)`: another iteration begins
LoopRuns == attempt < retries

\* a 200 response that is logged but not returned on
Send200NoReturn ==
    /\ pc = "send" /\ LoopRuns
    /\ attempts' = Append(attempts, "200")
    /\ attempt' = attempt + 1
    /\ UNCHANGED <<apiVars, sent, retries, mainVars, rendered_page, fileVars, spiderVars, loadVars>>

\* main.py:172-184  the request is answered with status 200
Send200 ==
    /\ pc = "send" /\ LoopRuns
    /\ attempts' = Append(attempts, "200")
    /\ sent' = "True"
    /\ pc' = "sent"
    /\ UNCHANGED <<apiVars, attempt, retries, exit_code, crawled, rendered_page, fileVars,
                   spiderVars, loadVars>>

\* main.py:172-186  the request is answered with another status
SendNon200 ==
    /\ pc = "send" /\ LoopRuns
    /\ attempts' = Append(attempts, "non200")
    /\ attempt' = attempt + 1
    /\ UNCHANGED <<apiVars, sent, retries, mainVars, rendered_page, fileVars, spiderVars, loadVars>>

\* main.py:188-192  the request raises a RequestException
SendRequestException ==
    /\ pc = "send" /\ LoopRuns
    /\ attempts' = Append(attempts, "transport")
    /\ IF attempt = retries - 1
       THEN sent' = "False" /\ pc' = "sent" /\ attempt' = attempt
       ELSE sent' = sent /\ pc' = pc /\ attempt' = attempt + 1
    /\ UNCHANGED <<apiVars, retries, exit_code, crawled, rendered_page, fileVars, spiderVars, loadVars>>

\* the generic handler treating the exception as a transport failure: the loop goes on
SendExceptionRetried ==
    /\ pc = "send" /\ LoopRuns
    /\ attempts' = Append(attempts, "exception")
    /\ IF attempt = retries - 1
       THEN sent' = "False" /\ pc' = "sent" /\ attempt' = attempt
       ELSE sent' = sent /\ pc' = pc /\ attempt' = attempt + 1
    /\ UNCHANGED <<apiVars, retries, exit_code, crawled, rendered_page, fileVars, spiderVars,
                   loadVars>>

\* main.py:193-195  the attempt raises any other exception
SendException ==
    /\ pc = "send" /\ LoopRuns
    /\ attempts' = Append(attempts, "exception")
    /\ sent' = "False"
    /\ pc' = "sent"
    /\ UNCHANGED <<apiVars, attempt, retries, exit_code, crawled, rendered_page, fileVars,
                   spiderVars, loadVars>>

\* main.py:197  the loop ends without a 200
SendExhausted ==
    /\ pc = "send" /\ ~ LoopRuns
    /\ sent' = "False"
    /\ pc' = "sent"
    /\ UNCHANGED <<apiVars, attempt, attempts, retries, exit_code, crawled, rendered_page, fileVars,
                   spiderVars, loadVars>>

send_webhook_data ==
    Send200 \/ SendNon200 \/ SendRequestException \/ SendException \/ SendExhausted

\* main.py:261 taking the process to exit code 0 whatever delivery returned
MainFinishAlwaysZero ==
    /\ pc = "sent"
    /\ exit_code' = 0
    /\ pc' = "exit"
    /\ UNCHANGED <<apiVars, crawled, rendered_page, fileVars, spiderVars, loadVars, sendVars>>

\* main.py:256-265  step 3 of main: the exit code after delivery
MainFinish ==
    /\ pc = "sent"
    /\ exit_code' = IF sent = "True" THEN 0 ELSE 1
    /\ pc' = "exit"
    /\ UNCHANGED <<apiVars, crawled, rendered_page, fileVars, spiderVars, loadVars, sendVars>>

Payloads == {[items |-> <<[id |-> 1]>>], [id |-> 1], [id |-> 2]}

InitSend ==
    /\ pc = "send" /\ exit_code = -1 /\ crawled = "True"
    /\ retries \in 0..MaxRetries
    /\ json_output = NoFile /\ rendered_page = TRUE /\ log_file = TRUE
    /\ response = None /\ spider = "done" /\ emitted = <<>> /\ calls = <<>>
    /\ json_data \in Payloads /\ warnings = 0
    /\ attempt = 0 /\ attempts = <<>> /\ sent = "none"
    /\ line_runs = Older(json_output) /\ NoServer

NextSend == send_webhook_data \/ MainFinish

SpecSend == InitSend /\ [][NextSend]_vars

\* ---------------------------------------------------------------- the run entrypoint
\* cleanup_files letting the OSError of the log file's unlink end the run
cleanup_filesRaisesOnLogFile ==
    /\ pc = "cleanup"
    /\ \E unlinked \in [Paths -> BOOLEAN] :
          LET logged(p, exists) == IF ~ exists THEN "missing"
                                   ELSE IF unlinked[p] THEN "deleted" ELSE "error"
          IN  /\ cleanup_log' = [p \in Paths |->
                                   logged(p, CASE p = "json_output" -> json_output.exists
                                               [] p = "rendered_page" -> rendered_page
                                               [] OTHER -> log_file)]
              /\ json_output' = IF json_output.exists /\ unlinked["json_output"] THEN NoFile
                                ELSE json_output
              /\ line_runs' = IF json_output.exists /\ unlinked["json_output"] THEN <<>>
                              ELSE line_runs
              /\ rendered_page' = (rendered_page /\ ~ unlinked["rendered_page"])
              /\ log_file' = (log_file /\ ~ unlinked["log_file"])
              /\ IF log_file /\ ~ unlinked["log_file"]
                 THEN pc' = "exit" /\ exit_code' = 1
                 ELSE pc' = "crawl" /\ exit_code' = exit_code
    /\ UNCHANGED <<apiVars, crawled, spiderVars, loadVars, sendVars>>

\* main.py:200-229  cleanup_files: each unlink of an existing file succeeds or
\* raises OSError, which is logged ("error"); a missing file is only reported
cleanup_files ==
    /\ pc = "cleanup"
    /\ \E unlinked \in [Paths -> BOOLEAN] :
          LET logged(p, exists) == IF ~ exists THEN "missing"
                                   ELSE IF unlinked[p] THEN "deleted" ELSE "error"
          IN  /\ cleanup_log' = [p \in Paths |->
                                   logged(p, CASE p = "json_output" -> json_output.exists
                                               [] p = "rendered_page" -> rendered_page
                                               [] OTHER -> log_file)]
              /\ json_output' = IF json_output.exists /\ unlinked["json_output"] THEN NoFile
                                ELSE json_output
              /\ line_runs' = IF json_output.exists /\ unlinked["json_output"] THEN <<>>
                              ELSE line_runs
              /\ rendered_page' = (rendered_page /\ ~ unlinked["rendered_page"])
              /\ log_file' = (log_file /\ ~ unlinked["log_file"])
    /\ pc' = "crawl"
    /\ UNCHANGED <<apiVars, exit_code, crawled, spiderVars, loadVars, sendVars>>

\* the documents the target page is drawn from in a full run
MainDocs ==
    {Doc("Just a moment... Cloudflare", <<ListBlock(<<Named("iPhone 12")>>)>>, <<>>),
     Doc("", <<BadJson, ListBlock(<<Named("iPhone 12"), Named(" Pixel 7 "), Named("XY")>>)>>,
         <<>>),
     Doc("", <<ListBlock(<<Named("iPhone 12"), JObj([name |-> JNull])>>)>>, <<>>),
     Doc("", <<>>, <<[tag |-> "h2", texts |-> <<"Compatible devices">>],
                     [tag |-> "ol", lis |-> << <<Text("Nokia 3310")>>, <<Text("iPhone 12")>> >>]>>),
     Doc("", <<>>, <<[tag |-> "p"]>>)}

\* main.py:70-77  the scrapy process starts and the page is rendered: parse is
\* called with the response
CrawlFetch ==
    /\ pc = "crawl"
    /\ pc' = "crawling"
    /\ response' \in MainDocs
    /\ spider' = "parse"
    /\ emitted' = <<>> /\ calls' = <<>>
    /\ UNCHANGED <<apiVars, exit_code, crawled, rendered_page, fileVars, loadVars, sendVars>>

\* scrap.py:31  the navigation fails (the 60 s timeout): parse is never called and
\* the spider closes without an item
CrawlFetchFailed ==
    /\ pc = "crawl"
    /\ pc' = "crawling"
    /\ response' = None
    /\ spider' = "done"
    /\ emitted' = <<>> /\ calls' = <<>>
    /\ UNCHANGED <<apiVars, exit_code, crawled, rendered_page, fileVars, loadVars, sendVars>>

\* main going on to the load step although the crawl returned failure
CrawlFailedGoesOn ==
    /\ pc = "crawl"
    /\ crawled' = "False"
    /\ pc' = "load"
    /\ UNCHANGED <<apiVars, exit_code, rendered_page, fileVars, spiderVars, loadVars, sendVars>>

\* main.py:82-85, 90-95 and 245-247  the process cannot be started, or ends with
\* a return code other than 0
CrawlFailed ==
    /\ pc = "crawl"
    /\ crawled' = "False"
    /\ pc' = "exit" /\ exit_code' = 1
    /\ UNCHANGED <<apiVars, rendered_page, fileVars, spiderVars, loadVars, sendVars>>

\* main.py:87-89 and 245-247  subprocess.TimeoutExpired: the process is killed
CrawlTimeout ==
    /\ pc = "crawling"
    /\ spider' = "killed"
    /\ crawled' = "False"
    /\ pc' = "exit" /\ exit_code' = 1
    /\ UNCHANGED <<apiVars, response, emitted, calls, rendered_page, fileVars, loadVars, sendVars>>

\* scrap.py:35-37  the jsonlines feed: one line per item
FeedLines(items) == [i \in 1..Len(items) |-> Obj(items[i])]

\* scrap.py:35-37 and main.py:79-81  the spider closes: the feed, which has no
\* overwrite option, appends the items to the output artifact, and the process
\* returns code 0
SpiderClose ==
    /\ pc = "crawling" /\ spider = "done"
    /\ json_output' = IF emitted = <<>> THEN json_output
                      ELSE [exists |-> TRUE, lines |-> json_output.lines \o FeedLines(emitted)]
    /\ line_runs' = line_runs \o [i \in 1..Len(emitted) |-> run]
    /\ crawled' = "True"
    /\ pc' = "load"
    /\ UNCHANGED <<apiVars, exit_code, rendered_page, log_file, cleanup_log, spiderVars,
                   loadVars, sendVars>>

run_scrapy_crawl ==
    \/ CrawlFetch \/ CrawlFetchFailed \/ CrawlFailed \/ CrawlTimeout
    \/ ParseCheckBlock \/ ParseJsonLd \/ ParseFallback
    \/ SpiderClose

\* what a previous run, or anything else, left at the output artifact's path
StaleFiles ==
    {NoFile,
     [exists |-> TRUE, lines |-> <<Obj(NoDataItem)>>],
     [exists |-> TRUE, lines |-> <<BadLine>>]}

\* main.py:45-60 and 232-239  the process starts: the logging set-up has opened
\* the log file
Init ==
    /\ pc = "cleanup" /\ exit_code = -1 /\ crawled = "none"
    /\ retries \in 0..MaxRetries
    /\ json_output \in StaleFiles /\ rendered_page \in BOOLEAN /\ log_file = TRUE
    /\ response = None /\ spider = "idle" /\ emitted = <<>> /\ calls = <<>>
    /\ json_data = None /\ warnings = 0
    /\ attempt = 0 /\ attempts = <<>> /\ sent = "none"
    /\ line_runs = Older(json_output) /\ NoServer

\* main.py:232-265  main
Next ==
    \/ cleanup_files
    \/ run_scrapy_crawl
    \/ LoadJsonData
    \/ send_webhook_data
    \/ MainFinish

Spec == Init /\ [][Next]_vars

\* ---------------------------------------------------------------- the HTTP trigger
\* the request carries no body at all
NoBody == [t |-> "empty"]

\* the bodies a client may send: none, one that is no JSON, and JSON values
Bodies ==
    {NoBody, BadJson,
     JObj([trigger |-> JStr("cron"), metadata |-> JObj([source |-> JStr("nightly")])]),
     JObj([trigger |-> JNull, note |-> JStr("x")]),
     JObj([metadata |-> JStr("nightly")]),
     JList(<<JStr("x")>>),
     JStr("go")}

\* api.py:15-17  an optional field holds a value of its type, or null, or is absent
OptionalStr(v, k) == HasKey(v, k) => v.f[k].t \in {"str", "null"}

OptionalDict(v, k) == HasKey(v, k) => v.f[k].t \in {"obj", "null"}

\* api.py:15-20  the body parameter: absent it takes the default, otherwise it
\* must be a JSON object that validates as WebhookData
ValidWebhookData(body) ==
    \/ body = NoBody
    \/ /\ body # BadJson
       /\ IsDict(body)
       /\ OptionalStr(body, "trigger")
       /\ OptionalDict(body, "metadata")

\* esimcrawl/api.py:16  request.json() returns for any JSON value
request_json(body) == body \notin {NoBody, BadJson}

\* whether the handler of the serving module is entered and reaches subprocess.run
Accepted(body) ==
    IF api = "api" THEN ValidWebhookData(body) ELSE request_json(body)

\* the event loop serving a request also while a handler is inside subprocess.run
IdleOrRunning == (request = None /\ pc \in {"idle", "exit"}) \/ request # None

\* api.py:19-31, esimcrawl/api.py:11-25  the handlers are coroutines of the one
\* event loop and subprocess.run blocks it: nothing else is served from the call
\* until the process has ended and the handler has returned
Idle == request = None /\ pc \in {"idle", "exit"}

\* a client sends POST /webhook: the request waits until the event loop takes
\* it, also while a run is in progress
WebhookArrive ==
    /\ api \in {"api", "esimcrawl.api"}
    /\ run + pending < MaxRequests
    /\ pending' = pending + 1
    /\ UNCHANGED <<run, api, request, http_response, answered, mainVars, rendered_page,
                   fileVars, spiderVars, loadVars, sendVars>>

\* api.py:19-20  the body does not validate: the framework answers 422 and the
\* handler is never entered
WebhookValidationError ==
    /\ Idle /\ pending > 0 /\ api = "api"
    /\ \E body \in Bodies :
          /\ ~ ValidWebhookData(body)
          /\ http_response' = [code |-> 422, status |-> "none", returncode |-> -1]
    /\ pending' = pending - 1
    /\ UNCHANGED <<run, api, request, answered, mainVars, rendered_page, fileVars,
                   spiderVars, loadVars, sendVars>>

\* esimcrawl/api.py:16 and 44-46  request.json() raises inside the try
WebhookJsonError ==
    /\ Idle /\ pending > 0 /\ api = "esimcrawl.api"
    /\ \E body \in Bodies :
          /\ ~ request_json(body)
          /\ http_response' = [code |-> 200, status |-> "error", returncode |-> -1]
    /\ pending' = pending - 1
    /\ UNCHANGED <<run, api, request, answered, mainVars, rendered_page, fileVars,
                   spiderVars, loadVars, sendVars>>

\* api.py:52-58, esimcrawl/api.py:44-46  subprocess.run raises (no python on the
\* path): no run takes place
WebhookSpawnError ==
    /\ Idle /\ pending > 0 /\ api \in {"api", "esimcrawl.api"}
    /\ \E body \in Bodies :
          /\ Accepted(body)
          /\ http_response' = [code |-> 200, status |-> "error", returncode |-> -1]
    /\ pending' = pending - 1
    /\ UNCHANGED <<run, api, request, answered, mainVars, rendered_page, fileVars,
                   spiderVars, loadVars, sendVars>>

\* api.py:26-31, esimcrawl/api.py:20-25 and main.py:45-60  subprocess.run starts
\* a new process of main, whose logging set-up opens the log file
WebhookRun ==
    /\ Idle /\ pending > 0 /\ api \in {"api", "esimcrawl.api"}
    /\ \E body \in Bodies :
          /\ Accepted(body)
          /\ request' = body
    /\ http_response' = None
    /\ pending' = pending - 1
    /\ run' = run + 1
    /\ pc' = "cleanup" /\ exit_code' = -1 /\ crawled' = "none"
    /\ log_file' = TRUE /\ cleanup_log' = NoLog
    /\ response' = None /\ spider' = "idle" /\ emitted' = <<>> /\ calls' = <<>>
    /\ json_data' = None /\ warnings' = 0
    /\ attempt' = 0 /\ attempts' = <<>> /\ sent' = "none"
    /\ UNCHANGED <<api, answered, retries, json_output, line_runs, rendered_page>>

\* api.py:33-50, esimcrawl/api.py:27-42  the process has ended: the answer is
\* built from its return code
WebhookRespond ==
    /\ request # None /\ pc = "exit"
    /\ http_response' = [code |-> 200,
                         status |-> IF exit_code = 0 THEN "success" ELSE "error",
                         returncode |-> exit_code]
    /\ request' = None
    /\ answered' = answered + 1
    /\ UNCHANGED <<run, api, pending, mainVars, rendered_page, fileVars, spiderVars,
                   loadVars, sendVars>>

webhook_trigger ==
    WebhookArrive \/ WebhookValidationError \/ WebhookJsonError \/ WebhookSpawnError
    \/ WebhookRun \/ WebhookRespond

\* start_api.py:14-20  the server is up and no run has taken place
InitApi ==
    /\ pc = "idle" /\ exit_code = -1 /\ crawled = "none"
    /\ retries = 1
    /\ json_output = NoFile /\ rendered_page = FALSE /\ log_file = FALSE
    /\ response = None /\ spider = "idle" /\ emitted = <<>> /\ calls = <<>>
    /\ json_data = None /\ warnings = 0
    /\ attempt = 0 /\ attempts = <<>> /\ sent = "none"
    /\ cleanup_log = NoLog /\ line_runs = <<>> /\ run = 0
    /\ api \in {"api", "esimcrawl.api"} /\ request = None /\ http_response = None
    /\ pending = 0 /\ answered = 0

NextApi == webhook_trigger \/ Next

SpecApi == InitApi /\ [][NextApi]_vars

\* ================================================================ claims
\* ---------------------------------------------------------------- Coordinator claims
BlockMarkers == {"cloudflare", "aws waf"}

HasMarker(r) ==
    \E part \in TextParts(r), marker \in BlockMarkers : Contains(Lower(part), marker)

Range(q) == { q[i] : i \in 1..Len(q) }

IsDevices(item) == "devices" \in DOMAIN item
IsBlocked(item) == "status" \in DOMAIN item /\ item.status = "blocked"
IsEmpty(item) ==
    /\ "status" \in DOMAIN item
    /\ item.status \in {"no_data_found", "no_devices_found"}
    /\ "devices" \notin DOMAIN item

\* the entries of an item list that carry a name
NamedEntries(item_list) ==
    { i \in 1..Len(item_list) : item_list[i].t = "obj" /\ "name" \in DOMAIN item_list[i].f }

\* an entry passes the acceptance filter: its name is a string longer than 2
\* characters after trimming
Acceptable(entry) ==
    /\ entry.t = "obj" /\ "name" \in DOMAIN entry.f
    /\ entry.f.name.t = "str" /\ Len(Strip(entry.f.name.v)) > 2

RECURSIVE AcceptedNames(_)
AcceptedNames(item_list) ==
    IF item_list = <<>> THEN <<>>
    ELSE (IF Acceptable(Head(item_list)) THEN <<Strip(Head(item_list).f.name.v)>> ELSE <<>>)
             \o AcceptedNames(Tail(item_list))

\* the document holds one structured-data block, of the expected shape
OneListBlock(r) == r # None /\ Len(r.scripts) = 1 /\ HasItemList(r.scripts[1])

\* C3: a document whose text contains a block-page marker, in any case, gets a
\* Blocked result and neither extractor is ever invoked for it, also when it holds
\* a valid structured device list.
Thm_C3 ==
    (response # None /\ HasMarker(response)) =>
        /\ calls = <<>>
        /\ spider \in {"parse", "done"}
        /\ spider = "done" => (Len(emitted) = 1 /\ IsBlocked(emitted[1]))

Wit_C3 ==
    /\ response # None /\ HasMarker(response) /\ ~ Contains(response.head, "cloudflare")
    /\ OneListBlock(response) /\ AcceptedNames(ItemListOf(response.scripts[1])) # <<>>
    /\ spider = "done" /\ Len(emitted) = 1 /\ IsBlocked(emitted[1]) /\ calls = <<>>

\* C4: the Fallback Extractor is invoked only after the Structured Extractor
\* returned no result; a non-empty structured list is emitted with
\* source=structured and exactly the structured names; a Devices result never
\* mixes names of the two extractors.
StructuredNames(r) == { Strip(s) : s \in UNION { JStrings(r.scripts[i]) : i \in 1..Len(r.scripts) } }
BodyNames(r) == { Strip(s) : s \in UNION { ElemStrings(r.body[e]) : e \in 1..Len(r.body) } }

Thm_C4 ==
    /\ "parse_html_fallback" \in Range(calls) =>
          /\ calls = <<"extract_json_ld_data", "parse_html_fallback">>
          /\ \A i \in 1..Len(emitted) :
                ~ (IsDevices(emitted[i]) /\ emitted[i].source = "json_ld_schema")
    /\ (spider = "done" /\ OneListBlock(response) /\ ~ HasMarker(response)
            /\ ~ StripRaises(ItemListOf(response.scripts[1]))
            /\ AcceptedNames(ItemListOf(response.scripts[1])) # <<>>) =>
          /\ Len(emitted) = 1 /\ IsDevices(emitted[1])
          /\ emitted[1].source = "json_ld_schema"
          /\ emitted[1].devices = AcceptedNames(ItemListOf(response.scripts[1]))
          /\ calls = <<"extract_json_ld_data">>
    /\ \A i \in 1..Len(emitted) :
          IsDevices(emitted[i]) =>
              \/ /\ emitted[i].source = "json_ld_schema"
                 /\ Range(emitted[i].devices) \subseteq StructuredNames(response)
              \/ /\ emitted[i].source = "html_fallback"
                 /\ Range(emitted[i].devices) \subseteq BodyNames(response)

\* both extractors would find devices, and different ones; the structured list wins
Wit_C4 ==
    /\ spider = "done" /\ response # None
    /\ FilteredDevices(response) # {}
    /\ Len(emitted) = 1 /\ IsDevices(emitted[1]) /\ emitted[1].source = "json_ld_schema"
    /\ ~ (FilteredDevices(response) \subseteq Range(emitted[1].devices))
    /\ calls = <<"extract_json_ld_data">>

\* C5 (as stated): for a block with a main entity whose item list holds at least
\* one named entry longer than 2 characters after trimming, the Structured
\* Extractor returns exactly the trimmed names of the entries that pass the
\* filter, in list order, duplicates kept; every other entry is dropped.
Claim_C5 ==
    (OneListBlock(response) /\ calls # <<>>
        /\ AcceptedNames(ItemListOf(response.scripts[1])) # <<>>) =>
            /\ emitted # <<>> /\ IsDevices(emitted[1])
            /\ emitted[1].source = "json_ld_schema"
            /\ emitted[1].devices = AcceptedNames(ItemListOf(response.scripts[1]))
            /\ emitted[1].total_devices = Len(emitted[1].devices)

\* C5 where every name in the list is a string: the statement holds there.
Claim_C5_StringNames ==
    (OneListBlock(response) /\ ~ StripRaises(ItemListOf(response.scripts[1]))) => Claim_C5

\* C6 (as stated): every Devices result has total = number of devices and every
\* device longer than 3 characters after trimming.
Claim_C6 ==
    \A i \in 1..Len(emitted) :
        IsDevices(emitted[i]) =>
            /\ emitted[i].total_devices = Len(emitted[i].devices)
            /\ \A d \in Range(emitted[i].devices) : Len(Strip(d)) > 3

\* C6 (amended): every Devices result has total = number of devices; every device
\* is longer than 2 characters after trimming, and longer than 3 when the
\* Fallback Extractor produced the result.
Thm_C6 ==
    \A i \in 1..Len(emitted) :
        IsDevices(emitted[i]) =>
            /\ emitted[i].total_devices = Len(emitted[i].devices)
            /\ emitted[i].devices # <<>>
            /\ \A d \in Range(emitted[i].devices) :
                  /\ Len(Strip(d)) > 2
                  /\ emitted[i].source = "html_fallback" => Len(Strip(d)) > 3

Wit_C6 ==
    /\ spider = "done" /\ Len(emitted) = 1 /\ IsDevices(emitted[1])
    /\ emitted[1].source = "json_ld_schema"
    /\ emitted[1].total_devices = 2
    /\ \E d \in Range(emitted[1].devices) : Len(d) = 3

Retried == {"non200", "transport"}

\* C1: delivery reports success exactly when some attempt k <= N got HTTP 200
\* after k-1 attempts that each got another status or a transport failure;
\* exactly k requests are then issued, and none after the 200.
Thm_C1 ==
    /\ Len(attempts) <= retries
    /\ \A j \in 1..(Len(attempts) - 1) : attempts[j] \in Retried
    /\ sent = "True" <=> (attempts # <<>> /\ attempts[Len(attempts)] = "200")
    /\ sent = "True" => pc \in {"sent", "exit"}

Wit_C1 ==
    /\ retries = 3 /\ attempts = <<"non200", "non200", "200">>
    /\ sent = "True" /\ pc = "sent"

\* C2: when each of the N attempts gets a non-200 status or a transport failure,
\* exactly N requests are issued, never more, and delivery returns False without
\* raising.
Thm_C2 ==
    /\ Len(attempts) <= retries
    /\ sent \in {"none", "True", "False"}
    /\ (pc \in {"sent", "exit"} /\ \A j \in 1..Len(attempts) : attempts[j] \in Retried) =>
          /\ sent = "False"
          /\ Len(attempts) = retries

Wit_C2 ==
    /\ retries = 3 /\ attempts = <<"non200", "transport", "non200">>
    /\ sent = "False" /\ pc = "sent"

\* ---------------------------------------------------------------- loader claims
Loaded == pc \in {"send", "exit"} /\ json_output.exists

AllObjects(lines) == \A i \in 1..Len(lines) : lines[i].k = "obj"

ValuesOf(lines) == [i \in 1..Len(lines) |-> lines[i].v]

ValidLines(lines) == SelectSeq(lines, LAMBDA line : line.k = "obj")

MalformedCount(lines) ==
    Cardinality({ i \in 1..Len(lines) : lines[i].k \notin {"obj", "blank"} })

\* C8 (as stated): an artifact holding one JSON object loads back as that object,
\* and an artifact holding N >= 1 newline-delimited objects loads back as
\* {"items": [obj1..objN]}.
Claim_C8 ==
    /\ (Loaded /\ Len(json_output.lines) = 1 /\ AllObjects(json_output.lines)) =>
          json_data = json_output.lines[1].v
    /\ (Loaded /\ Len(json_output.lines) >= 1 /\ AllObjects(json_output.lines)) =>
          json_data = [items |-> ValuesOf(json_output.lines)]

\* C8 (amended): an artifact holding one JSON object loads back as that object,
\* and an artifact holding N >= 2 newline-delimited objects loads back as
\* {"items": [obj1..objN]}, all N in file order, with no warning.
Thm_C8 ==
    /\ (Loaded /\ Len(json_output.lines) = 1 /\ AllObjects(json_output.lines)) =>
          json_data = json_output.lines[1].v
    /\ (Loaded /\ Len(json_output.lines) >= 2 /\ AllObjects(json_output.lines)) =>
          /\ json_data = [items |-> ValuesOf(json_output.lines)]
          /\ warnings = 0
          /\ pc = "send"

Wit_C8 ==
    /\ Loaded
    /\ json_output.lines = <<Obj([id |-> 1]), Obj([id |-> 2]), Obj([id |-> 1])>>
    /\ json_data = [items |-> <<[id |-> 1], [id |-> 2], [id |-> 1]>>]

\* C9 (as stated): with at least one valid line and any number of malformed
\* lines, the loader returns the valid objects in file order as {"items": [...]}
\* and logs one warning per malformed non-blank line.
Claim_C9 ==
    (Loaded /\ ValidLines(json_output.lines) # <<>>) =>
        /\ json_data = [items |-> ValuesOf(ValidLines(json_output.lines))]
        /\ warnings = MalformedCount(json_output.lines)

\* C9 (amended): the same, for an artifact whose content as a whole is not one
\* JSON document.
Thm_C9 ==
    (Loaded /\ ValidLines(json_output.lines) # <<>>
        /\ json_loads(json_output.lines) = DecodeError) =>
            /\ json_data = [items |-> ValuesOf(ValidLines(json_output.lines))]
            /\ warnings = MalformedCount(json_output.lines)
            /\ pc = "send"

Wit_C9 ==
    /\ Loaded
    /\ json_output.lines = <<BadLine, Obj([id |-> 1]), BadLine, Obj([id |-> 2])>>
    /\ json_data = [items |-> <<[id |-> 1], [id |-> 2]>>]
    /\ warnings = 2

\* ---------------------------------------------------------------- run claims
\* C10: main exits with code 0 exactly when the crawl step returned success, the
\* output artifact was loaded and delivery succeeded; every other run ends with
\* a non-zero code.
Thm_C10 ==
    /\ pc # "exit" => exit_code = -1
    /\ pc = "exit" =>
          /\ exit_code \in {0, 1}
          /\ exit_code = 0 <=> (crawled = "True" /\ json_data # None /\ sent = "True")
          /\ exit_code = 0 =>
                /\ json_output.exists
                /\ attempts # <<>> /\ attempts[Len(attempts)] = "200"

Wit_C10 ==
    /\ pc = "exit" /\ exit_code = 0
    /\ crawled = "True" /\ json_data # None /\ sent = "True"
    /\ attempts = <<"transport", "200">>

\* ---------------------------------------------------------------- run claims
\* the lines of the output artifact that hold a result
ResultLines == { i \in 1..Len(json_output.lines) : json_output.lines[i].k = "obj" }

\* C11 (as stated): once a run has loaded the output artifact and issued a
\* request, every result in the artifact it loaded was written by that same run:
\* no result of an earlier run is loaded or delivered by a later one.
Claim_C11 ==
    (run >= 1 /\ json_data # None /\ attempts # <<>>)
        => \A i \in ResultLines : line_runs[i] = run

\* C12: an attempt that raises an exception other than a transport failure is the
\* last one: the Delivery Client returns failure at once, whatever budget is
\* left, and the exception does not reach the caller.
Thm_C12 ==
    \A j \in 1..Len(attempts) :
        attempts[j] = "exception"
            => /\ j = Len(attempts)
               /\ sent = "False"
               /\ pc \in {"sent", "exit"}
               /\ pc = "exit" => exit_code = 1

\* the first of three attempts raised, and delivery has returned failure
Wit_C12 == retries = 3 /\ attempts = <<"exception">> /\ sent = "False" /\ pc = "exit"

\* ---------------------------------------------------------------- extractor claims
\* the block has the expected shape and at least one acceptable name
UsableBlock(data) == HasItemList(data) /\ AcceptedNames(ItemListOf(data)) # <<>>

\* no item list of the document holds a named entry whose name is not a string
StringNamesOnly(r) ==
    \A i \in 1..Len(r.scripts) :
        HasItemList(r.scripts[i]) => ~ StripRaises(ItemListOf(r.scripts[i]))

\* C13 (as stated, on documents whose names are all strings): whenever some
\* block has the expected shape with at least one acceptable name, the
\* Structured Extractor returns a device list, whatever blocks precede it:
\* unparsable, of another shape, or of the expected shape without an acceptable
\* name.
Claim_C13 ==
    (response # None /\ calls # <<>> /\ StringNamesOnly(response)
        /\ \E i \in 1..Len(response.scripts) : UsableBlock(response.scripts[i]))
        => /\ emitted # <<>>
           /\ IsDevices(emitted[1])
           /\ emitted[1].source = "json_ld_schema"

\* a block of the expected shape whose names are all strings, one acceptable
ValidItemList(data) == UsableBlock(data) /\ ~ StripRaises(ItemListOf(data))

\* C14: an unparsable block is skipped without ending the scan: when one or more
\* unparsable blocks precede a block with a valid item list, the Structured
\* Extractor returns the names of that block.
Thm_C14 ==
    \A k \in 2..(IF response = None THEN 0 ELSE Len(response.scripts)) :
        (/\ calls # <<>>
         /\ \A i \in 1..(k - 1) : response.scripts[i] = BadJson
         /\ ValidItemList(response.scripts[k]))
            => /\ emitted # <<>>
               /\ IsDevices(emitted[1])
               /\ emitted[1].source = "json_ld_schema"
               /\ emitted[1].devices = AcceptedNames(ItemListOf(response.scripts[k]))

\* two unparsable blocks, then a list of which two names are kept
Wit_C14 ==
    /\ response # None /\ Len(response.scripts) = 3
    /\ response.scripts[1] = BadJson /\ response.scripts[2] = BadJson
    /\ spider = "done" /\ Len(emitted) = 1 /\ IsDevices(emitted[1])
    /\ emitted[1].devices = <<"Galaxy S21", "Galaxy S21">>

\* ---------------------------------------------------------------- fallback claims
\* the headings Pass B uses as anchors
Anchors(r) == { h \in 1..Len(r.body) : IsHeading(r.body[h]) /\ IsAnchor(r.body[h]) }

\* j is the first list, of either kind, among the siblings that follow h
FirstListAfter(body, h, j) ==
    /\ j > h /\ IsList(body[j])
    /\ ~ \E k \in (h + 1)..(j - 1) : IsList(body[k])

\* j is the first list of its own kind among the siblings that follow h
FirstOfKindAfter(body, h, j) ==
    /\ j > h /\ IsList(body[j])
    /\ ~ \E k \in (h + 1)..(j - 1) : body[k].tag = body[j].tag

\* the texts Pass B collects when an anchor draws from the lists that P picks
PassB(r, P(_, _, _)) ==
    UNION { ListTexts(r.body[j]) :
              j \in { l \in 1..Len(r.body) : \E h \in Anchors(r) : P(r.body, h, l) } }

\* the devices of the item the Fallback Extractor gave, as a set
FallbackDevices == IF IsDevices(emitted[1]) THEN Range(emitted[1].devices) ELSE {}

FallbackRan == response # None /\ "parse_html_fallback" \in Range(calls)

\* C15 (as stated): each matching heading contributes the item texts of at most
\* one list, the first list among its following siblings; nothing of a later
\* sibling list, of either kind, is collected on account of that heading.
Claim_C15 ==
    FallbackRan =>
        FallbackDevices \subseteq MethodOne(response) \cup PassB(response, FirstListAfter)

\* C15 (amended): each matching heading contributes the item texts of at most
\* two lists, the first unordered and the first ordered list among its following
\* siblings; nothing of a later sibling list of the same kind is collected on
\* account of that heading.
Thm_C15 ==
    FallbackRan =>
        FallbackDevices =
            { d \in MethodOne(response) \cup PassB(response, FirstOfKindAfter) : Len(d) > 3 }

\* an anchor followed by an unordered and then an ordered list: "Nokia 3310",
\* which only Pass B can collect, comes from the second of them
Wit_C15 ==
    /\ FallbackRan /\ Len(response.body) >= 3
    /\ Anchors(response) = {1}
    /\ response.body[2].tag = "ul" /\ response.body[3].tag = "ol"
    /\ FallbackDevices = {"iPhone 12", "Galaxy S21", "Nokia 3310"}

\* the crawl ended normally with a single Blocked or Empty item
TerminalOutcome ==
    /\ crawled = "True" /\ Len(emitted) = 1
    /\ IsBlocked(emitted[1]) \/ IsEmpty(emitted[1])

\* the loaded payload is the item, or holds it among its items
InPayload(item) ==
    \/ json_data = item
    \/ "items" \in DOMAIN json_data /\ item \in Range(json_data.items)

\* C16: a Blocked or Empty outcome is not a run failure: the run loads the item
\* from the output artifact, POSTs it as data, and exits 0 when delivery
\* succeeds (and 1 only when delivery fails).
Thm_C16 ==
    TerminalOutcome =>
        /\ pc \in {"load", "send", "sent", "exit"}
        /\ pc # "load" => json_data # None /\ InPayload(emitted[1])
        /\ pc \in {"sent", "exit"} => attempts # <<>> \/ retries = 0
        /\ pc = "exit" => exit_code = (IF sent = "True" THEN 0 ELSE 1)
        /\ sent = "True" => attempts[Len(attempts)] = "200"

\* an Empty item was loaded as it is, delivered at the second attempt, exit 0
Wit_C16 ==
    /\ TerminalOutcome /\ IsEmpty(emitted[1]) /\ json_data = emitted[1]
    /\ attempts = <<"non200", "200">> /\ pc = "exit" /\ exit_code = 0

\* ---------------------------------------------------------------- trigger claims
\* C17 (as stated): every request to POST /webhook, whatever its body and
\* whatever the run it triggers does, is answered with HTTP 200 and a status that
\* is "success" exactly when the run exited with code 0 and "error" otherwise.
Claim_C17 ==
    http_response # None =>
        /\ http_response.code = 200
        /\ http_response.status \in {"success", "error"}
        /\ http_response.status = "success" <=> http_response.returncode = 0

\* C17 for the module that reads the body itself: the statement holds there.
Claim_C17_RequestJson == api = "esimcrawl.api" => Claim_C17

\* C18: cleanup_files never aborts the run: whatever exists and whichever
\* deletions fail, the run goes on to the crawl step and never ends without
\* having executed it; when the deletion of a pre-existing output artifact or
\* rendered page did not fail, the file is not there when the crawl starts.
Thm_C18 ==
    /\ pc \notin {"idle", "cleanup"} => \A p \in Paths : cleanup_log[p] # "none"
    /\ pc = "crawl" =>
          /\ exit_code = -1 /\ crawled = "none"
          /\ cleanup_log["json_output"] # "error" => ~ json_output.exists
          /\ cleanup_log["rendered_page"] # "error" => ~ rendered_page
          /\ cleanup_log["log_file"] = "error" => log_file
    /\ pc = "exit" => crawled \in {"True", "False"}

\* both artifacts were there and were deleted, the log file could not be
\* deleted, and the crawl is about to start
Wit_C18 ==
    /\ pc = "crawl" /\ exit_code = -1
    /\ cleanup_log = [json_output |-> "deleted", rendered_page |-> "deleted",
                      log_file |-> "error"]
    /\ ~ json_output.exists /\ ~ rendered_page /\ log_file

\* what the two passes find in the document, after the length filter
FallbackFinds(r) ==
    { d \in MethodOne(r) \cup PassB(r, FirstOfKindAfter) : Len(d) > 3 }

\* C19: for a document without a block-page marker in which neither extractor
\* finds a device, the single result is Empty, with the url and a diagnostic
\* reason and without a devices list; a Devices result with source=fallback is
\* produced only when the fallback found at least one device.
Thm_C19 ==
    /\ (spider = "done" /\ FallbackRan /\ FallbackFinds(response) = {}) =>
          /\ Len(emitted) = 1
          /\ IsEmpty(emitted[1])
          /\ "devices" \notin DOMAIN emitted[1]
          /\ "url" \in DOMAIN emitted[1] /\ emitted[1].url = StartUrl
          /\ "error" \in DOMAIN emitted[1] /\ emitted[1].error # ""
    /\ \A i \in 1..Len(emitted) :
          (IsDevices(emitted[i]) /\ emitted[i].source = "html_fallback") =>
              /\ emitted[i].devices # <<>>
              /\ FallbackRan /\ FallbackFinds(response) # {}

\* script blocks without a usable list and a body whose list items are all
\* rejected: the one result is Empty
Wit_C19 ==
    /\ spider = "done" /\ FallbackRan
    /\ response.scripts # <<>>
    /\ \E e \in 1..Len(response.body) : IsList(response.body[e]) /\ response.body[e].lis # <<>>
    /\ Len(emitted) = 1 /\ IsEmpty(emitted[1]) /\ emitted[1].url = StartUrl

\* the position of main among its steps: cleanup, crawl, load, deliver, exit
Rank(p) ==
    CASE p = "cleanup" -> 1
      [] p \in {"crawl", "crawling"} -> 2
      [] p = "load" -> 3
      [] p \in {"send", "sent"} -> 4
      [] OTHER -> 5

\* what has been done so far agrees with the order of the steps
StepsInOrder ==
    /\ Rank(pc) >= 2 => \A p \in Paths : cleanup_log[p] # "none"
    /\ Rank(pc) <= 2 =>
          crawled = "none" /\ json_data = None /\ attempts = <<>> /\ sent = "none"
    /\ pc = "load" => crawled = "True" /\ json_data = None /\ attempts = <<>>
    /\ Rank(pc) = 4 => crawled = "True" /\ json_data # None
    /\ attempts # <<>> => crawled = "True" /\ json_data # None
    /\ crawled = "False" =>
          /\ pc = "exit" /\ exit_code = 1
          /\ json_data = None /\ warnings = 0 /\ attempts = <<>> /\ sent = "none"
    /\ (pc = "exit" /\ json_data = None) =>
          exit_code = 1 /\ attempts = <<>> /\ sent = "none"
    /\ (pc = "exit" /\ sent # "True") => exit_code = 1

\* C20: within one run the steps happen in the order cleanup, crawl, load,
\* deliver, each at most once: main never goes back to an earlier step, no
\* request is sent unless the crawl returned success and the loader a payload,
\* and once a step fails no later step is executed.
Thm_C20 ==
    [][/\ Rank(pc') >= Rank(pc)
       /\ pc \in {"cleanup", "load"} => Rank(pc') > Rank(pc)
       /\ StepsInOrder']_vars

\* the crawl succeeded, the loader returned nothing, and the run ended without
\* a request
Wit_C20 ==
    /\ pc = "exit" /\ exit_code = 1 /\ crawled = "True"
    /\ json_data = None /\ attempts = <<>> /\ sent = "none"

\* the first text node of every list item of the document
FirstTexts(r) ==
    UNION { { r.body[e].lis[i][1].s :
                i \in { n \in 1..Len(r.body[e].lis) : r.body[e].lis[n] # <<>> } } :
              e \in { d \in 1..Len(r.body) : IsList(r.body[d]) } }

\* the Pass A matches: trimmed item texts longer than 3 characters that contain
\* a vocabulary keyword, in any case
PassA(r) ==
    { Strip(t) : t \in { x \in FirstTexts(r) :
                            /\ Len(Strip(x)) > 3
                            /\ \E keyword \in DeviceKeywords :
                                  Contains(Lower(Strip(x)), keyword) } }

\* the devices of an item, as a set
DeviceSet(item) == IF IsDevices(item) THEN Range(item.devices) ELSE {}

\* C21: the list the Fallback Extractor returns is, as a set, the union of the
\* Pass A matches and the Pass B matches restricted to texts longer than 3
\* characters after trimming; no entry occurs twice; and every run of the
\* extractor on the same document gives the same set.
Thm_C21 ==
    FallbackRan =>
        /\ DeviceSet(emitted[1]) =
              { d \in PassA(response) \cup PassB(response, FirstOfKindAfter) : Len(d) > 3 }
        /\ IsDevices(emitted[1]) =>
              /\ Len(emitted[1].devices) = Cardinality(Range(emitted[1].devices))
              /\ \A d \in Range(emitted[1].devices) : d = Strip(d) /\ Len(d) > 3
        /\ \A again \in parse_html_fallback(response) :
              Len(again) = 1 /\ DeviceSet(again[1]) = DeviceSet(emitted[1])

\* "iPhone 12" is matched by both passes and in both lists, "Galaxy S21" by
\* Pass A alone and "Nokia 3310" by Pass B alone: three entries, Pass B's first
Wit_C21 ==
    /\ FallbackRan /\ Len(response.body) = 3 /\ Anchors(response) = {1}
    /\ response.body[2].tag = "ol" /\ response.body[3].tag = "ul"
    /\ PassA(response) = {"iPhone 12", "Galaxy S21"}
    /\ IsDevices(emitted[1]) /\ Len(emitted[1].devices) = 3
    /\ emitted[1].devices[1] = "Nokia 3310"

\* ---------------------------------------------------------------- concurrency claims
\* the runs started through the server and not yet answered
InProgress == run - answered

\* C22: under any interleaving of concurrent requests to one server process at
\* most one run is in progress: a run starts only when no other is in progress
\* and the process of the previous one has ended, so the output artifact is
\* changed only by the single run in progress, in its cleanup or its crawl,
\* never while another run loads or delivers it.
Thm_C22 ==
    [][/\ InProgress' \in {0, 1}
       /\ run' # run =>
             /\ InProgress = 0 /\ pc \in {"idle", "exit"}
             /\ InProgress' = 1 /\ pc' = "cleanup"
       /\ json_output' # json_output =>
             /\ InProgress = 1 /\ InProgress' = 1
             /\ pc \in {"cleanup", "crawling"}]_vars

\* a second request has arrived and waits while the first run, which wrote the
\* output artifact, is delivering it
Wit_C22 ==
    /\ run = 1 /\ answered = 0 /\ pending >= 1
    /\ pc = "send" /\ json_output.exists /\ json_data # None
    /\ request # None

====
